---------------------------- MODULE Spec2Model ----------------------------
(***************************************************************************)
(* Model of the ZATCA e-invoicing library: the QR builder (zatca/qr) and   *)
(* the certification client (zatca/api), with the unit lifecycle that      *)
(* drives the client.                                                      *)
(*                                                                         *)
(* Strings and Buffers are sequences of bytes (0..255); a JavaScript       *)
(* string is modelled by its UTF-8 bytes, which is what Buffer.from(str)   *)
(* produces.                                                               *)
(***************************************************************************)
EXTENDS Integers, Sequences, FiniteSets, TLC

VARIABLES
    qr_phase,      \* 0: no call yet, 1: generatePhaseOneQR ran, 2: generateQR ran
    qr_args,       \* the arguments of the call: invoice_xml and the phase-2 parameters
    qr_result      \* what the call produced: a returned base64 string or a thrown error

VARIABLES
    env,           \* the environment the API object was constructed with
    credentials,   \* the certificate and secret a direct caller hands to the client
    invoked,       \* the operation last invoked, with the arguments that matter
    requests,      \* the HTTP requests the current invocation has sent, in order
    pending,       \* the invocation awaiting its response, or NoCall
    received,      \* what axios got for the last request that settled
    outcome,       \* what the last invocation gave its caller: a result or an error
    submitted      \* the invoice submissions sent so far: which operation, which hash

qr_vars == <<qr_phase, qr_args, qr_result>>

VARIABLES
    unit_state,              \* the lifecycle state of the unit (EGS)
    compliance_certificate,  \* the unit's compliance CertificateRecord, or NoCertificate
    production_certificate,  \* the unit's production CertificateRecord, or NoCertificate
    signed,                  \* the invoice the unit signed last, or NoInvoice
    chain                    \* the invoices the unit signed, in order: each one's
                             \* previous_invoice_hash and its own hash

client_vars ==
    <<env, credentials, invoked, requests, pending, received, outcome, submitted>>

unit_vars ==
    <<unit_state, compliance_certificate, production_certificate, signed, chain>>

vars ==
    <<qr_phase, qr_args, qr_result,
      env, credentials, invoked, requests, pending, received, outcome, submitted,
      unit_state, compliance_certificate, production_certificate, signed, chain>>

---------------------------------------------------------------------------
(* Bounds of the model *)

\* a call's arguments differ from the sample invoice in at most this many fields
MaxDeviations == 2

(* Program constants *)

\* a Uint8Array element holds one byte: values are stored modulo 256
ByteMod == 256

---------------------------------------------------------------------------
(* Bytes, strings, base64 *)

Fill(n, b) == [i \in 1..n |-> b]

RECURSIVE Concat(_)
Concat(parts) ==
    IF parts = <<>> THEN <<>> ELSE Head(parts) \o Concat(Tail(parts))

\* the ASCII code of the base64 digit with value v (0..63)
B64Char(v) ==
    IF v < 26 THEN 65 + v
    ELSE IF v < 52 THEN 97 + (v - 26)
    ELSE IF v < 62 THEN 48 + (v - 52)
    ELSE IF v = 62 THEN 43
    ELSE 47

\* the value of the base64 digit with ASCII code c
B64Val(c) ==
    IF c >= 65 /\ c <= 90 THEN c - 65
    ELSE IF c >= 97 /\ c <= 122 THEN c - 97 + 26
    ELSE IF c >= 48 /\ c <= 57 THEN c - 48 + 52
    ELSE IF c = 43 THEN 62
    ELSE 63

B64Pad == 61

\* buffer.toString("base64")
Base64Encode(bytes) ==
    LET n == Len(bytes)
        groups == (n + 2) \div 3
        byte(i) == IF i <= n THEN bytes[i] ELSE 0
        triple(g) == byte(3*g - 2) * 65536 + byte(3*g - 1) * 256 + byte(3*g)
        char(j) ==
            LET g == ((j - 1) \div 4) + 1
                k == (j - 1) % 4
                t == triple(g)
            IN  IF k = 0 THEN B64Char(t \div 262144)
                ELSE IF k = 1 THEN B64Char((t \div 4096) % 64)
                ELSE IF k = 2 THEN
                    IF 3*g - 1 > n THEN B64Pad ELSE B64Char((t \div 64) % 64)
                ELSE
                    IF 3*g > n THEN B64Pad ELSE B64Char(t % 64)
    IN  [j \in 1..(4 * groups) |-> char(j)]

\* Buffer.from(str, "base64"), for a padded base64 string
Base64Decode(chars) ==
    LET m == Len(chars)
        groups == m \div 4
        pads == IF m = 0 THEN 0
                ELSE IF chars[m - 1] = B64Pad THEN 2
                ELSE IF chars[m] = B64Pad THEN 1
                ELSE 0
        val(j) == IF chars[j] = B64Pad THEN 0 ELSE B64Val(chars[j])
        triple(g) == val(4*g - 3) * 262144 + val(4*g - 2) * 4096
                        + val(4*g - 1) * 64 + val(4*g)
        byte(i) ==
            LET g == ((i - 1) \div 3) + 1
                k == (i - 1) % 3
                t == triple(g)
            IN  IF k = 0 THEN t \div 65536
                ELSE IF k = 1 THEN (t \div 256) % 256
                ELSE t % 256
    IN  [i \in 1..(3 * groups - pads) |-> byte(i)]

---------------------------------------------------------------------------
(* The invoice document as the QR builder reads it *)

\* the value JavaScript calls undefined: what invoice_xml.get(path)?.[0]
\* yields when the document has no such element
undefined == <<-1>>

Fields ==
    {"seller_name", "VAT_number", "invoice_total", "VAT_total",
     "issue_date", "issue_time"}

Params == {"digital_signature", "public_key", "certificate_signature"}

\* the sample invoice of the examples, with one-or-two-byte field values
SampleArgs ==
    [seller_name |-> <<65, 66>>,          \* "AB"
     VAT_number |-> <<51>>,               \* "3"
     invoice_total |-> <<53, 55>>,        \* "57"
     VAT_total |-> <<55>>,                \* "7"
     issue_date |-> <<50, 48>>,           \* "20"
     issue_time |-> <<49, 90>>,           \* "1Z"
     digital_signature |-> <<77, 69>>,    \* "ME"
     public_key |-> <<48, 86>>,
     certificate_signature |-> <<48, 69>>]

\* lengths around the one-byte limit of the TLV length field
LongLens == {255, 256, 300}

\* the other values a field of the document can have
FieldAlternatives ==
    {undefined, <<>>} \cup {Fill(n, 97) : n \in LongLens}

\* the other values a phase-2 parameter (a string or a Buffer) can have
ParamAlternatives ==
    {<<>>} \cup {Fill(n, 98) : n \in LongLens}

Alternatives(f) == IF f \in Fields THEN FieldAlternatives ELSE ParamAlternatives

\* the arguments that differ from the sample in the fields of S, as a says
Deviate(S, a) ==
    [f \in Fields \cup Params |-> IF f \in S THEN a[f] ELSE SampleArgs[f]]

ArgSets ==
    {S \in SUBSET (Fields \cup Params) : Cardinality(S) <= MaxDeviations}


---------------------------------------------------------------------------
(* getInvoiceHash (zatca/signing): the base64 text of a 32-byte digest of  *)
(* the document.  The digest stands for SHA-256: a deterministic function  *)
(* of the document's content.                                              *)

\* what one field contributes to the digest
Weight(v) == IF v = <<>> THEN 0 ELSE Len(v) + v[1] + v[Len(v)]

DigestLen == 32

Checksum(args) ==
    (  7 * Weight(args.seller_name) + 11 * Weight(args.VAT_number)
     + 13 * Weight(args.invoice_total) + 17 * Weight(args.VAT_total)
     + 19 * Weight(args.issue_date) + 23 * Weight(args.issue_time) + 600)
    % ByteMod

getInvoiceHash(args) ==
    Base64Encode([i \in 1..DigestLen |-> (Checksum(args) + i) % ByteMod])

---------------------------------------------------------------------------
(* The QR builder *)

\* "undefined", what a template string makes of an undefined value
UndefinedText == <<117, 110, 100, 101, 102, 105, 110, 101, 100>>

TemplateText(v) == IF v = undefined THEN UndefinedText ELSE v

\* `${issue_date}T${issue_time}`
formatted_datetime(args) ==
    TemplateText(args.issue_date) \o <<84>> \o TemplateText(args.issue_time)

\* the five entries both phases share
tlv_data_phase_one(args) ==
    << [tag |-> 1, value |-> args.seller_name],
       [tag |-> 2, value |-> args.VAT_number],
       [tag |-> 3, value |-> formatted_datetime(args)],
       [tag |-> 4, value |-> args.invoice_total],
       [tag |-> 5, value |-> args.VAT_total] >>

tlv_data_phase_two(args) ==
    tlv_data_phase_one(args) \o
    << [tag |-> 6, value |-> getInvoiceHash(args)],
       [tag |-> 7, value |-> args.digital_signature],
       [tag |-> 8, value |-> args.public_key],
       [tag |-> 9, value |-> args.certificate_signature] >>

\* a length byte that counts the two header bytes as well
length_buffer_with_header(value_buffer) == <<(Len(value_buffer) + 2) % ByteMod>>

\* new Uint8Array([value_buffer.length]): the length is stored in one byte
length_buffer(value_buffer) == <<Len(value_buffer) % ByteMod>>

tag_buffer(tag) == <<tag % ByteMod>>

\* one element of tlv_parts
tlv_part(entry) ==
    tag_buffer(entry.tag) \o length_buffer(entry.value) \o entry.value

\* Buffer.concat(tlv_data.map(...))
tlv_buffer(tlv_data) ==
    Concat([i \in 1..Len(tlv_data) |-> tlv_part(tlv_data[i])])

Returned(str) == [kind |-> "return", value |-> str, error |-> "none"]
Thrown(e) == [kind |-> "throw", value |-> <<>>, error |-> e]
NotCalled == [kind |-> "none", value |-> <<>>, error |-> "none"]

\* the map over tlv_data and the final base64: Buffer.from(undefined) throws a
\* TypeError, so no string is returned when an entry's value is undefined
EncodeQR(tlv_data) ==
    IF \E i \in 1..Len(tlv_data) : tlv_data[i].value = undefined
    THEN Thrown("TypeError")
    ELSE Returned(Base64Encode(tlv_buffer(tlv_data)))

\* the arguments are chosen when the program starts; the call is made once
InitQR ==
    /\ qr_phase = 0
    /\ \E S \in ArgSets :
         \E a \in [S -> FieldAlternatives \cup ParamAlternatives] :
            /\ \A f \in S : a[f] \in Alternatives(f)
            /\ qr_args = Deviate(S, a)
    /\ qr_result = NotCalled

generatePhaseOneQR ==
    /\ qr_phase = 0
    /\ qr_phase' = 1
    /\ qr_result' = EncodeQR(tlv_data_phase_one(qr_args))
    /\ UNCHANGED qr_args
    /\ UNCHANGED client_vars
    /\ UNCHANGED unit_vars

generateQR ==
    /\ qr_phase = 0
    /\ qr_phase' = 2
    /\ qr_result' = EncodeQR(tlv_data_phase_two(qr_args))
    /\ UNCHANGED qr_args
    /\ UNCHANGED client_vars
    /\ UNCHANGED unit_vars

NextQR == generatePhaseOneQR \/ generateQR

---------------------------------------------------------------------------
(* The certification client (zatca/api): settings and credentials *)

API_VERSION == "V2"
SANDBOX_BASEURL == "https://gw-fatoora.zatca.gov.sa/e-invoicing/developer-portal"
SIMULATION_BASEURL == "https://gw-fatoora.zatca.gov.sa/e-invoicing/simulation"
PRODUCTION_BASEURL == "https://gw-fatoora.zatca.gov.sa/e-invoicing/core"

Envs == {"production", "simulation", "development"}

base_url(e) ==
    IF e = "production" THEN PRODUCTION_BASEURL
    ELSE IF e = "simulation" THEN SIMULATION_BASEURL
    ELSE SANDBOX_BASEURL

Newline == <<10>>

\* "-----BEGIN CERTIFICATE-----"
PemHeader ==
    Fill(5, 45) \o <<66, 69, 71, 73, 78, 32>>
        \o <<67, 69, 82, 84, 73, 70, 73, 67, 65, 84, 69>> \o Fill(5, 45)

\* "-----END CERTIFICATE-----"
PemFooter ==
    Fill(5, 45) \o <<69, 78, 68, 32>>
        \o <<67, 69, 82, 84, 73, 70, 73, 67, 65, 84, 69>> \o Fill(5, 45)

\* `-----BEGIN CERTIFICATE-----\n${issued_certificate}\n-----END CERTIFICATE-----`
PemWrap(body) == PemHeader \o Newline \o body \o Newline \o PemFooter

StripPrefix(s, p) ==
    IF Len(s) >= Len(p) /\ SubSeq(s, 1, Len(p)) = p
    THEN SubSeq(s, Len(p) + 1, Len(s))
    ELSE s

StripSuffix(s, p) ==
    IF Len(s) >= Len(p) /\ SubSeq(s, Len(s) - Len(p) + 1, Len(s)) = p
    THEN SubSeq(s, 1, Len(s) - Len(p))
    ELSE s

\* cleanUpCertificateString (zatca/signing): removes the PEM header, the PEM
\* footer and the newlines
cleanUpCertificateString(certificate) ==
    LET NotNewline(c) == c # 10
    IN  SelectSeq(StripSuffix(StripPrefix(certificate, PemHeader), PemFooter),
                  NotNewline)

\* a JavaScript value that a condition takes as true: neither undefined nor ""
Truthy(v) == v # undefined /\ v # <<>>

\* "Basic "
BasicText == <<66, 97, 115, 105, 99, 32>>

Colon == <<58>>

EmptyHeaders == <<>>

\* the credential computed from the certificate as it is, without stripping it
getAuthHeadersUnstripped(certificate, secret) ==
    IF Truthy(certificate) /\ Truthy(secret)
    THEN [Authorization |->
            BasicText \o Base64Encode(Base64Encode(certificate) \o Colon \o secret)]
    ELSE EmptyHeaders

\* the header built as soon as a certificate is given, whatever the secret
getAuthHeaders_certificateOnly(certificate, secret) ==
    IF Truthy(certificate)
    THEN [Authorization |->
            BasicText \o Base64Encode(
                Base64Encode(cleanUpCertificateString(certificate))
                    \o Colon \o TemplateText(secret))]
    ELSE EmptyHeaders

getAuthHeaders(certificate, secret) ==
    IF Truthy(certificate) /\ Truthy(secret)
    THEN LET certificate_stripped == cleanUpCertificateString(certificate)
             basic == Base64Encode(
                        Base64Encode(certificate_stripped) \o Colon \o secret)
         IN  [Authorization |-> BasicText \o basic]
    ELSE EmptyHeaders

\* { ...a, ...b }: the keys of both, b's value where both have the key
Spread(a, b) ==
    [k \in DOMAIN a \cup DOMAIN b |-> IF k \in DOMAIN b THEN b[k] ELSE a[k]]

---------------------------------------------------------------------------
(* The five operations: the request each one posts *)

\* axios.post(url, data, config); a timeout of 0 is axios's "no timeout"
Post(url, data, headers, timeout) ==
    [url |-> url, data |-> data, headers |-> headers, timeout |-> timeout]

NoTimeout == 0
ComplianceCheckTimeout == 30000

compliance_issueCertificate_request(e, certificate, secret, csr, otp) ==
    LET auth_headers == getAuthHeaders(certificate, secret)
        headers == ("Accept-Version" :> API_VERSION) @@ ("OTP" :> otp)
    IN  Post(base_url(e) \o "/compliance",
             [csr |-> Base64Encode(csr)],
             Spread(auth_headers, headers),
             NoTimeout)

InvoiceData(signed_xml_string, invoice_hash, egs_uuid) ==
    [invoiceHash |-> invoice_hash,
     uuid |-> egs_uuid,
     invoice |-> Base64Encode(signed_xml_string)]

compliance_checkInvoiceCompliance_request(e, certificate, secret, signed_xml_string, invoice_hash, egs_uuid) ==
    LET auth_headers == getAuthHeaders(certificate, secret)
        headers == ("Accept-Version" :> API_VERSION) @@ ("Accept-Language" :> "en")
    IN  Post(base_url(e) \o "/compliance/invoices",
             InvoiceData(signed_xml_string, invoice_hash, egs_uuid),
             Spread(auth_headers, headers),
             ComplianceCheckTimeout)

production_issueCertificate_request(e, certificate, secret, compliance_request_id) ==
    LET auth_headers == getAuthHeaders(certificate, secret)
        headers == ("Accept-Version" :> API_VERSION)
    IN  Post(base_url(e) \o "/production/csids",
             [compliance_request_id |-> compliance_request_id],
             Spread(auth_headers, headers),
             NoTimeout)

production_reportInvoice_request(e, certificate, secret, signed_xml_string, invoice_hash, egs_uuid) ==
    LET auth_headers == getAuthHeaders(certificate, secret)
        headers == ("Accept-Version" :> API_VERSION) @@ ("Accept-Language" :> "en")
                        @@ ("Clearance-Status" :> "0")
    IN  Post(base_url(e) \o "/invoices/reporting/single",
             InvoiceData(signed_xml_string, invoice_hash, egs_uuid),
             Spread(auth_headers, headers),
             NoTimeout)

\* a clearance that was copied from the report and sends the report's request
production_clearanceInvoice_request_as_report(e, certificate, secret, signed_xml_string, invoice_hash, egs_uuid) ==
    production_reportInvoice_request(e, certificate, secret, signed_xml_string, invoice_hash, egs_uuid)

production_clearanceInvoice_request(e, certificate, secret, signed_xml_string, invoice_hash, egs_uuid) ==
    LET auth_headers == getAuthHeaders(certificate, secret)
        headers == ("Accept-Version" :> API_VERSION) @@ ("Accept-Language" :> "en")
                        @@ ("Clearance-Status" :> "1")
    IN  Post(base_url(e) \o "/invoices/clearance/single",
             InvoiceData(signed_xml_string, invoice_hash, egs_uuid),
             Spread(auth_headers, headers),
             NoTimeout)

---------------------------------------------------------------------------
(* What the remote service answers, and what axios makes of it *)

\* the text the service puts in binarySecurityToken decodes to
TokenText == <<77, 73, 73, 67>>      \* "MIIC"

SecretText == <<115, 51, 99>>        \* "s3c"

RequestIds == {"1234567890123", "9876543210987"}

CsidBody(id) ==
    [requestID |-> id,
     binarySecurityToken |-> Base64Encode(TokenText),
     secret |-> SecretText]

PassBody ==
    [validationResults |->
        [status |-> "WARNING",
         errorMessages |-> <<>>,
         warningMessages |-> <<[code |-> "BR-KSA-98", message |-> "late"]>>],
     reportingStatus |-> "REPORTED"]

RejectBody ==
    [validationResults |->
        [status |-> "ERROR",
         errorMessages |-> <<[code |-> "BR-KSA-26", message |-> "bad hash"],
                             [code |-> "BR-KSA-27", message |-> "bad QR"]>>,
         warningMessages |-> <<>>],
     reportingStatus |-> "NOT_REPORTED"]

PlainBody == [message |-> "Internal Server Error"]

IssueOps == {"compliance.issueCertificate", "production.issueCertificate"}

InvoiceOps ==
    {"compliance.checkInvoiceCompliance", "production.reportInvoice",
     "production.clearanceInvoice"}

SuccessStatuses == {200, 202}

\* statuses the service answers with when it does not accept the request
OtherStatuses == {201, 400, 401, 500}

HttpResponse(status, data) == [kind |-> "response", status |-> status, data |-> data]

\* the request went out and nothing came back
NoAnswer == [kind |-> "no_response"]

NothingReceived == [kind |-> "none"]

Responses(op) ==
    {HttpResponse(st, d) :
        st \in SuccessStatuses,
        d \in IF op \in IssueOps THEN {CsidBody(id) : id \in RequestIds}
              ELSE {PassBody}}
    \cup {HttpResponse(st, d) : st \in OtherStatuses, d \in {RejectBody, PlainBody}}
    \cup {NoAnswer}

\* axios resolves the promise for a 2xx status (its default validateStatus) and
\* rejects it otherwise with an error that holds the response, if there was one
AxiosResolves(response) ==
    /\ response.kind = "response"
    /\ response.status >= 200
    /\ response.status < 300

\* the text of an error message: its wording and, where the code appends
\* them, the status, the JSON text of the body and the listed messages
Message(text) ==
    [text |-> text, status |-> <<>>, body |-> <<>>,
     errors |-> <<>>, warnings |-> <<>>]

\* an error object: `response` is empty when the error has no such property
AxiosError(response) ==
    [name |-> "AxiosError",
     message |-> Message("Request failed"),
     request |-> TRUE,
     response |-> IF response.kind = "response"
                  THEN <<[status |-> response.status, data |-> response.data]>>
                  ELSE <<>>]

\* new Error(message)
Error(message) ==
    [name |-> "Error", message |-> message, request |-> FALSE, response |-> <<>>]

TypeError ==
    [name |-> "TypeError", message |-> Message("argument must be a string"),
     request |-> FALSE, response |-> <<>>]

ApiReturn(value) == [kind |-> "return", value |-> value]
ApiThrow(error) == [kind |-> "throw", error |-> error]
NoOutcome == [kind |-> "none"]

\* the part of issueCertificate after the await, the same in both groups
issueCertificate_settle(response, message) ==
    IF ~AxiosResolves(response) THEN ApiThrow(AxiosError(response))
    ELSE IF response.status \notin {200, 202}
         THEN ApiThrow(Error(Message(message)))
    ELSE IF "binarySecurityToken" \notin DOMAIN response.data THEN ApiThrow(TypeError)
    ELSE ApiReturn(
            [issued_certificate |->
                PemWrap(Base64Decode(response.data.binarySecurityToken)),
             api_secret |-> response.data.secret,
             request_id |-> response.data.requestID])

compliance_issueCertificate_settle(response) ==
    issueCertificate_settle(response, "Error issuing a compliance certificate.")

production_issueCertificate_settle(response) ==
    issueCertificate_settle(response, "Error issuing a production certificate.")

\* JSON.stringify(data): the data as one piece of text
JsonText(data) == [json |-> data]

\* the lines "n. message (code)" appended to errorDetails
MessageLines(list) ==
    [i \in 1..Len(list) |-> <<i, list[i].message, list[i].code>>]

\* the text errorDetails of the catch block
errorDetails(error) ==
    IF error.response # <<>> THEN
        LET res == error.response[1]
            results == IF "validationResults" \in DOMAIN res.data
                       THEN res.data.validationResults
                       ELSE [errorMessages |-> <<>>, warningMessages |-> <<>>]
        IN  [text |-> "Status: ",
             status |-> <<res.status>>,
             body |-> <<JsonText(res.data)>>,
             errors |-> MessageLines(results.errorMessages),
             warnings |-> MessageLines(results.warningMessages)]
    ELSE IF error.request THEN Message("No response received from server")
    ELSE error.message

\* the try block of checkInvoiceCompliance after the await
checkInvoiceCompliance_try(response) ==
    IF ~AxiosResolves(response) THEN ApiThrow(AxiosError(response))
    ELSE IF response.status \notin {200, 202}
         THEN ApiThrow(Error(
                [Message("Unexpected status code: ")
                    EXCEPT !.status = <<response.status>>]))
    ELSE ApiReturn(response.data)

\* whatever the try block throws is replaced by a new Error whose message is
\* "Compliance check failed: " followed by errorDetails
compliance_checkInvoiceCompliance_settle(response) ==
    LET tried == checkInvoiceCompliance_try(response)
    IN  IF tried.kind = "throw"
        THEN LET details == errorDetails(tried.error)
             IN  ApiThrow(Error(
                    [details EXCEPT
                        !.text = "Compliance check failed: " \o details.text]))
        ELSE tried

\* the part of reportInvoice and of clearanceInvoice after the await
invoice_settle(response, message) ==
    IF ~AxiosResolves(response) THEN ApiThrow(AxiosError(response))
    ELSE IF response.status \notin {200, 202}
         THEN ApiThrow(Error(Message(message)))
    ELSE ApiReturn(response.data)

production_reportInvoice_settle(response) ==
    invoice_settle(response, "Error in reporting invoice.")

production_clearanceInvoice_settle(response) ==
    invoice_settle(response, "Error in clearance invoice.")

SettleOp(op, response) ==
    CASE op = "compliance.issueCertificate" ->
            compliance_issueCertificate_settle(response)
      [] op = "compliance.checkInvoiceCompliance" ->
            compliance_checkInvoiceCompliance_settle(response)
      [] op = "production.issueCertificate" ->
            production_issueCertificate_settle(response)
      [] op = "production.reportInvoice" ->
            production_reportInvoice_settle(response)
      [] op = "production.clearanceInvoice" ->
            production_clearanceInvoice_settle(response)

---------------------------------------------------------------------------
(* The client called directly: api.compliance(certificate, secret).op(...)  *)
(* and api.production(certificate, secret).op(...)                          *)

NoCall == [op |-> "none", via |-> "none"]
NoInvocation == [op |-> "none"]

\* certificate texts a caller can hold: "MIIB", "MIIBa", "MIIBaz"
CertificateBodies ==
    {<<77, 73, 73, 66>>, <<77, 73, 73, 66, 97>>, <<77, 73, 73, 66, 97, 122>>}

SecretInputs == {undefined, <<>>, <<115>>, <<115, 75>>}

\* the certificate is not given, is "", is the bare text, or is the text in PEM
CredentialInputs ==
    {[form |-> f, body |-> <<>>, secret |-> sec] :
        f \in {"absent", "empty"}, sec \in SecretInputs}
    \cup {[form |-> f, body |-> b, secret |-> sec] :
        f \in {"stripped", "pem"}, b \in CertificateBodies, sec \in SecretInputs}

CertificateOf(c) ==
    IF c.form = "absent" THEN undefined
    ELSE IF c.form = "empty" THEN <<>>
    ELSE IF c.form = "stripped" THEN c.body
    ELSE PemWrap(c.body)

SampleCSR == <<67, 83, 82>>
OTPs == {"123345", "746141"}
SampleUuid == "6f4d20e0-6bfe-4a80-9389-7dabe6620f12"

\* signed invoices: the signed XML text and the invoice hash
SignedInvoices ==
    {[signed_invoice_string |-> <<60, 73, 62>>, invoice_hash |-> "hash-1"],
     [signed_invoice_string |-> <<60, 73, 73, 62>>, invoice_hash |-> "hash-2"]}

NoInvoice == [signed_invoice_string |-> <<>>, invoice_hash |-> "none"]

\* the request ids a caller can pass: none ("") or one the service gave out
RequestIdInputs == {""} \cup RequestIds

ClientIdle ==
    /\ env = "development"
    /\ credentials = [form |-> "absent", body |-> <<>>, secret |-> undefined]
    /\ invoked = NoInvocation
    /\ requests = <<>>
    /\ pending = NoCall
    /\ received = NothingReceived
    /\ outcome = NoOutcome
    /\ submitted = {}

InitClient ==
    /\ env \in Envs
    /\ credentials \in CredentialInputs
    /\ invoked = NoInvocation
    /\ requests = <<>>
    /\ pending = NoCall
    /\ received = NothingReceived
    /\ outcome = NoOutcome
    /\ submitted = {}

SubmissionOps == {"production.reportInvoice", "production.clearanceInvoice"}

\* an operation posts its request and awaits the response
Send(op, via, request) ==
    /\ requests' = <<request>>
    /\ submitted' =
            IF op \in SubmissionOps
            THEN submitted \cup {[op |-> op, invoiceHash |-> request.data.invoiceHash]}
            ELSE submitted
    /\ pending' = [op |-> op, via |-> via]
    /\ received' = NothingReceived
    /\ outcome' = NoOutcome

compliance_issueCertificate ==
    /\ pending = NoCall
    /\ \E otp \in OTPs :
        /\ invoked' = [op |-> "compliance.issueCertificate", otp |-> otp]
        /\ Send("compliance.issueCertificate", "client",
                compliance_issueCertificate_request(
                    env, CertificateOf(credentials), credentials.secret,
                    SampleCSR, otp))
    /\ UNCHANGED <<env, credentials>>
    /\ UNCHANGED unit_vars
    /\ UNCHANGED qr_vars

compliance_checkInvoiceCompliance ==
    /\ pending = NoCall
    /\ \E inv \in SignedInvoices :
        /\ invoked' = [op |-> "compliance.checkInvoiceCompliance", invoice |-> inv]
        /\ Send("compliance.checkInvoiceCompliance", "client",
                compliance_checkInvoiceCompliance_request(
                    env, CertificateOf(credentials), credentials.secret,
                    inv.signed_invoice_string, inv.invoice_hash, SampleUuid))
    /\ UNCHANGED <<env, credentials>>
    /\ UNCHANGED unit_vars
    /\ UNCHANGED qr_vars

production_issueCertificate ==
    /\ pending = NoCall
    /\ \E id \in RequestIdInputs :
        /\ invoked' = [op |-> "production.issueCertificate",
                       compliance_request_id |-> id]
        /\ Send("production.issueCertificate", "client",
                production_issueCertificate_request(
                    env, CertificateOf(credentials), credentials.secret, id))
    /\ UNCHANGED <<env, credentials>>
    /\ UNCHANGED unit_vars
    /\ UNCHANGED qr_vars

production_reportInvoice ==
    /\ pending = NoCall
    /\ \E inv \in SignedInvoices :
        /\ invoked' = [op |-> "production.reportInvoice", invoice |-> inv]
        /\ Send("production.reportInvoice", "client",
                production_reportInvoice_request(
                    env, CertificateOf(credentials), credentials.secret,
                    inv.signed_invoice_string, inv.invoice_hash, SampleUuid))
    /\ UNCHANGED <<env, credentials>>
    /\ UNCHANGED unit_vars
    /\ UNCHANGED qr_vars

production_clearanceInvoice ==
    /\ pending = NoCall
    /\ \E inv \in SignedInvoices :
        /\ invoked' = [op |-> "production.clearanceInvoice", invoice |-> inv]
        /\ Send("production.clearanceInvoice", "client",
                production_clearanceInvoice_request(
                    env, CertificateOf(credentials), credentials.secret,
                    inv.signed_invoice_string, inv.invoice_hash, SampleUuid))
    /\ UNCHANGED <<env, credentials>>
    /\ UNCHANGED unit_vars
    /\ UNCHANGED qr_vars

---------------------------------------------------------------------------
(* The unit lifecycle (zatca/egs), which drives the client with the unit's  *)
(* own certificates.  States: Unregistered, KeysGenerated,                  *)
(* ComplianceCertIssued, ProductionCertIssued.                              *)

NoCertificate ==
    [issued_certificate |-> undefined, api_secret |-> undefined, request_id |-> ""]

UnitIdle ==
    /\ unit_state = "Unregistered"
    /\ compliance_certificate = NoCertificate
    /\ production_certificate = NoCertificate
    /\ signed = NoInvoice
    /\ chain = <<>>

SequenceError(op) ==
    [name |-> "SequenceError", message |-> Message(op),
     request |-> FALSE, response |-> <<>>]

\* an operation invoked out of lifecycle order fails and sends nothing
Reject(op) ==
    /\ requests' = <<>>
    /\ pending' = NoCall
    /\ received' = NothingReceived
    /\ outcome' = ApiThrow(SequenceError(op))
    /\ UNCHANGED submitted

egs_generateNewKeysAndCSR ==
    /\ pending = NoCall
    /\ invoked' = [op |-> "egs.generateNewKeysAndCSR"]
    /\ IF unit_state \in {"Unregistered", "KeysGenerated"}
       THEN /\ unit_state' = "KeysGenerated"
            /\ requests' = <<>>
            /\ received' = NothingReceived
            /\ outcome' = ApiReturn(SampleCSR)
            /\ UNCHANGED <<pending, submitted>>
       ELSE /\ Reject("egs.generateNewKeysAndCSR")
            /\ UNCHANGED unit_state
    /\ UNCHANGED <<env, credentials>>
    /\ UNCHANGED <<compliance_certificate, production_certificate, signed, chain>>
    /\ UNCHANGED qr_vars

egs_issueComplianceCertificate ==
    /\ pending = NoCall
    /\ \E otp \in OTPs :
        /\ invoked' = [op |-> "egs.issueComplianceCertificate", otp |-> otp]
        /\ IF unit_state = "KeysGenerated"
           THEN Send("compliance.issueCertificate", "unit",
                     compliance_issueCertificate_request(
                        env, undefined, undefined, SampleCSR, otp))
           ELSE Reject("egs.issueComplianceCertificate")
    /\ UNCHANGED <<env, credentials>>
    /\ UNCHANGED unit_vars
    /\ UNCHANGED qr_vars

\* a unit signs at most this many invoices
MaxInvoices == 3

\* the previous_invoice_hash of the first invoice a unit ever signs
FirstPreviousHash == "NA=="

\* the previous_invoice_hash of the invoice that the other two examples sign
ExamplePreviousHash == "Hss2gNFjBY5OJn/5CEVZSSNUMrSf4QlCMxwsioPN6fA="

\* the previous_invoice_hash values an invoice presented for signing can carry
PreviousHashInputs ==
    {FirstPreviousHash, ExamplePreviousHash}
    \cup {inv.invoice_hash : inv \in SignedInvoices}

\* the digest the unit tracks: the hash of the invoice it signed last
LastDigest ==
    IF chain = <<>> THEN FirstPreviousHash ELSE chain[Len(chain)].invoice_hash

\* a unit that signs whatever previous_invoice_hash it is presented with
ChainContinues_any(previous_invoice_hash) == TRUE

\* the invoice presented for signing continues the unit's hash chain
ChainContinues(previous_invoice_hash) == previous_invoice_hash = LastDigest

egs_signInvoice ==
    /\ pending = NoCall
    /\ \E inv \in SignedInvoices, previous_invoice_hash \in PreviousHashInputs :
        /\ invoked' = [op |-> "egs.signInvoice", invoice |-> inv,
                       previous_invoice_hash |-> previous_invoice_hash]
        /\ IF /\ unit_state \in {"ComplianceCertIssued", "ProductionCertIssued"}
              /\ ChainContinues(previous_invoice_hash)
           THEN /\ Len(chain) < MaxInvoices
                /\ signed' = inv
                /\ chain' = Append(chain,
                       [previous_invoice_hash |-> previous_invoice_hash,
                        invoice_hash |-> inv.invoice_hash])
                /\ requests' = <<>>
                /\ received' = NothingReceived
                /\ outcome' = ApiReturn(inv)
                /\ UNCHANGED <<pending, submitted>>
           ELSE /\ Reject("egs.signInvoice")
                /\ UNCHANGED <<signed, chain>>
    /\ UNCHANGED <<env, credentials>>
    /\ UNCHANGED <<unit_state, compliance_certificate, production_certificate>>
    /\ UNCHANGED qr_vars

egs_checkInvoiceCompliance ==
    /\ pending = NoCall
    /\ signed # NoInvoice
    /\ invoked' = [op |-> "egs.checkInvoiceCompliance", invoice |-> signed]
    /\ IF unit_state \in {"ComplianceCertIssued", "ProductionCertIssued"}
       THEN Send("compliance.checkInvoiceCompliance", "unit",
                 compliance_checkInvoiceCompliance_request(
                    env, compliance_certificate.issued_certificate,
                    compliance_certificate.api_secret,
                    signed.signed_invoice_string, signed.invoice_hash, SampleUuid))
       ELSE Reject("egs.checkInvoiceCompliance")
    /\ UNCHANGED <<env, credentials>>
    /\ UNCHANGED unit_vars
    /\ UNCHANGED qr_vars

\* the production issuance that accepts any request id in the right state
RequestIdAccepted_any(id) == unit_state = "ComplianceCertIssued"

\* issuing a production certificate needs the request id that the compliance
\* issuance of this unit produced
RequestIdAccepted(id) ==
    /\ unit_state = "ComplianceCertIssued"
    /\ id # ""
    /\ id = compliance_certificate.request_id

egs_issueProductionCertificate ==
    /\ pending = NoCall
    /\ \E id \in RequestIdInputs :
        /\ invoked' = [op |-> "egs.issueProductionCertificate",
                       compliance_request_id |-> id]
        /\ IF RequestIdAccepted(id)
           THEN Send("production.issueCertificate", "unit",
                     production_issueCertificate_request(
                        env, compliance_certificate.issued_certificate,
                        compliance_certificate.api_secret, id))
           ELSE Reject("egs.issueProductionCertificate")
    /\ UNCHANGED <<env, credentials>>
    /\ UNCHANGED unit_vars
    /\ UNCHANGED qr_vars

\* a unit that submits invoices as soon as it has any certificate
SubmissionAllowed_early ==
    unit_state \in {"ComplianceCertIssued", "ProductionCertIssued"}

\* reporting and clearance need the production certificate
SubmissionAllowed == unit_state = "ProductionCertIssued"

egs_reportInvoice ==
    /\ pending = NoCall
    /\ signed # NoInvoice
    /\ invoked' = [op |-> "egs.reportInvoice", invoice |-> signed]
    /\ IF SubmissionAllowed
       THEN Send("production.reportInvoice", "unit",
                 production_reportInvoice_request(
                    env, production_certificate.issued_certificate,
                    production_certificate.api_secret,
                    signed.signed_invoice_string, signed.invoice_hash, SampleUuid))
       ELSE Reject("egs.reportInvoice")
    /\ UNCHANGED <<env, credentials>>
    /\ UNCHANGED unit_vars
    /\ UNCHANGED qr_vars

egs_clearanceInvoice ==
    /\ pending = NoCall
    /\ signed # NoInvoice
    /\ invoked' = [op |-> "egs.clearanceInvoice", invoice |-> signed]
    /\ IF SubmissionAllowed
       THEN Send("production.clearanceInvoice", "unit",
                 production_clearanceInvoice_request(
                    env, production_certificate.issued_certificate,
                    production_certificate.api_secret,
                    signed.signed_invoice_string, signed.invoice_hash, SampleUuid))
       ELSE Reject("egs.clearanceInvoice")
    /\ UNCHANGED <<env, credentials>>
    /\ UNCHANGED unit_vars
    /\ UNCHANGED qr_vars

---------------------------------------------------------------------------
(* The awaited promise settles: the operation gives its caller a result or  *)
(* an error, and the unit records a certificate it was issued.              *)

\* the unit keeps the certificate record an issuance of its own returned
RecordCertificate(call, result) ==
    LET issued == call.via = "unit" /\ result.kind = "return"
    IN  IF issued /\ call.op = "compliance.issueCertificate"
        THEN /\ compliance_certificate' = result.value
             /\ unit_state' = "ComplianceCertIssued"
             /\ UNCHANGED production_certificate
        ELSE IF issued /\ call.op = "production.issueCertificate"
        THEN /\ production_certificate' = result.value
             /\ unit_state' = "ProductionCertIssued"
             /\ UNCHANGED compliance_certificate
        ELSE UNCHANGED <<unit_state, compliance_certificate,
                         production_certificate>>

\* an operation that posts its request again when the first attempt failed
Settle_retrying ==
    /\ pending # NoCall
    /\ \E response \in Responses(pending.op) :
        /\ received' = response
        /\ IF ~AxiosResolves(response) /\ Len(requests) < 2
           THEN /\ requests' = Append(requests, requests[1])
                /\ outcome' = NoOutcome
                /\ UNCHANGED <<pending, unit_state, compliance_certificate,
                               production_certificate>>
           ELSE /\ outcome' = SettleOp(pending.op, response)
                /\ RecordCertificate(pending, SettleOp(pending.op, response))
                /\ pending' = NoCall
                /\ UNCHANGED requests
    /\ UNCHANGED <<env, credentials, invoked, submitted, signed, chain>>
    /\ UNCHANGED qr_vars

\* the response, or the failure to get one, reaches the operation
Settle ==
    /\ pending # NoCall
    /\ \E response \in Responses(pending.op) :
        /\ received' = response
        /\ outcome' = SettleOp(pending.op, response)
        /\ RecordCertificate(pending, SettleOp(pending.op, response))
    /\ pending' = NoCall
    /\ UNCHANGED <<env, credentials, invoked, requests, submitted, signed, chain>>
    /\ UNCHANGED qr_vars

\* the timer of a request that was given a timeout runs out before any
\* response: axios rejects with an error that has a request and no response
Timeout ==
    /\ pending # NoCall
    /\ requests[Len(requests)].timeout > NoTimeout
    /\ received' = NoAnswer
    /\ outcome' = SettleOp(pending.op, NoAnswer)
    /\ pending' = NoCall
    /\ UNCHANGED <<env, credentials, invoked, requests, submitted>>
    /\ UNCHANGED unit_vars
    /\ UNCHANGED qr_vars

QRIdle ==
    /\ qr_phase = 0
    /\ qr_args = SampleArgs
    /\ qr_result = NotCalled

NextClient ==
    \/ compliance_issueCertificate
    \/ compliance_checkInvoiceCompliance
    \/ production_issueCertificate
    \/ production_reportInvoice
    \/ production_clearanceInvoice
    \/ Settle
    \/ Timeout

InitSpecQR == InitQR /\ ClientIdle /\ UnitIdle

SpecQR == InitSpecQR /\ [][NextQR]_vars

InitSpecClient == InitClient /\ UnitIdle /\ QRIdle

SpecClient == InitSpecClient /\ [][NextClient]_vars

\* the client against a remote service that never responds: no request is
\* ever answered, and a timer that was set does run out
NextSilent ==
    \/ compliance_issueCertificate
    \/ compliance_checkInvoiceCompliance
    \/ production_issueCertificate
    \/ production_reportInvoice
    \/ production_clearanceInvoice
    \/ Timeout

SpecSilent == InitSpecClient /\ [][NextSilent]_vars /\ WF_vars(Timeout)

InitUnit ==
    /\ env \in Envs
    /\ credentials = [form |-> "absent", body |-> <<>>, secret |-> undefined]
    /\ invoked = NoInvocation
    /\ requests = <<>>
    /\ pending = NoCall
    /\ received = NothingReceived
    /\ outcome = NoOutcome
    /\ submitted = {}
    /\ UnitIdle

NextUnit ==
    \/ egs_generateNewKeysAndCSR
    \/ egs_issueComplianceCertificate
    \/ egs_signInvoice
    \/ egs_checkInvoiceCompliance
    \/ egs_issueProductionCertificate
    \/ egs_reportInvoice
    \/ egs_clearanceInvoice
    \/ Settle
    \/ Timeout

InitSpecUnit == InitUnit /\ QRIdle

SpecUnit == InitSpecUnit /\ [][NextUnit]_vars

---------------------------------------------------------------------------
(* The sequential TLV reader of the QR consumers: read a tag byte, read a  *)
(* length byte, read that many value bytes, repeat; a declared length that *)
(* exceeds the remaining bytes is rejected.                                *)

RECURSIVE DecodeTLV(_)
DecodeTLV(buf) ==
    IF buf = <<>> THEN [ok |-> TRUE, entries |-> <<>>]
    ELSE IF Len(buf) < 2 THEN [ok |-> FALSE, entries |-> <<>>]
    ELSE IF buf[2] > Len(buf) - 2 THEN [ok |-> FALSE, entries |-> <<>>]
    ELSE LET rest == DecodeTLV(SubSeq(buf, 3 + buf[2], Len(buf)))
         IN  [ok |-> rest.ok,
              entries |-> <<[tag |-> buf[1], value |-> SubSeq(buf, 3, 2 + buf[2])]>>
                            \o rest.entries]

\* what a consumer reads out of the returned QR string
DecodedQR == DecodeTLV(Base64Decode(qr_result.value))

\* the entries the call of this state encodes
CallEntries ==
    IF qr_phase = 1 THEN tlv_data_phase_one(qr_args)
    ELSE IF qr_phase = 2 THEN tlv_data_phase_two(qr_args)
    ELSE <<>>

\* the largest length one byte can hold
MaxValueLen == ByteMod - 1

HasLongValue ==
    \E i \in 1..Len(CallEntries) :
        /\ CallEntries[i].value # undefined
        /\ Len(CallEntries[i].value) > MaxValueLen

AllValuesFit ==
    \A i \in 1..Len(CallEntries) :
        /\ CallEntries[i].value # undefined
        /\ Len(CallEntries[i].value) <= MaxValueLen

MissingFields == {f \in Fields : qr_args[f] = undefined}

---------------------------------------------------------------------------
(* C1: a call with a field value longer than 255 bytes fails with an error *)
(* and returns no QR string.                                               *)
C1_LongValueFails ==
    (qr_phase # 0 /\ HasLongValue) => qr_result.kind = "throw"

---------------------------------------------------------------------------
(* C2: for an invoice that has all its source fields the call returns a QR *)
(* that decodes to exactly the tags 1..5 (phase 1) or 1..9 (phase 2), in   *)
(* ascending order, each value equal to its source field.                  *)
SourceValues ==
    LET five == << qr_args.seller_name,
                   qr_args.VAT_number,
                   qr_args.issue_date \o <<84>> \o qr_args.issue_time,
                   qr_args.invoice_total,
                   qr_args.VAT_total >>
    IN  IF qr_phase = 1 THEN five
        ELSE five \o << getInvoiceHash(qr_args),
                        qr_args.digital_signature,
                        qr_args.public_key,
                        qr_args.certificate_signature >>

\* C2: a complete invoice yields a QR that decodes to the fixed tags, in
\* order, each with its source value
C2_DecodesToFixedTags ==
    (qr_phase # 0 /\ MissingFields = {}) =>
        /\ qr_result.kind = "return"
        /\ DecodedQR.ok
        /\ Len(DecodedQR.entries) = (IF qr_phase = 1 THEN 5 ELSE 9)
        /\ \A i \in 1..Len(DecodedQR.entries) :
              /\ DecodedQR.entries[i].tag = i
              /\ DecodedQR.entries[i].value = SourceValues[i]

---------------------------------------------------------------------------
(* C3: the encoded buffer is, per entry and in input order, the tag byte,  *)
(* one length byte equal to the number of value bytes, and the value       *)
(* bytes; its length is the sum of 2 + value length.                       *)
RECURSIVE Offset(_, _)
\* where entry i starts in the buffer: after the entries before it
Offset(entries, i) ==
    IF i = 1 THEN 0
    ELSE Offset(entries, i - 1) + 2 + Len(entries[i - 1].value)

\* C3: tag byte, length byte equal to the value length, value bytes, per
\* entry and in input order; nothing else in the buffer
C3_BufferLayout ==
    qr_result.kind = "return" =>
        LET buf == Base64Decode(qr_result.value)
            n == Len(CallEntries)
        IN  /\ Len(buf) = Offset(CallEntries, n) + 2 + Len(CallEntries[n].value)
            /\ \A i \in 1..n :
                 LET off == Offset(CallEntries, i)
                     v == CallEntries[i].value
                 IN  /\ buf[off + 1] = CallEntries[i].tag
                     /\ buf[off + 2] = Len(v)
                     /\ SubSeq(buf, off + 3, off + 2 + Len(v)) = v

---------------------------------------------------------------------------
(* C4: when every value is at most 255 bytes, reading the returned buffer  *)
(* entry by entry yields the encoded entries exactly, and the reader       *)
(* rejects the buffer cut short inside an entry.                           *)
\* the lengths at which the buffer is cut inside entry i: after its tag,
\* after its length byte, and one byte before its end
CutPoints(entries, i) ==
    LET off == Offset(entries, i)
        len == Len(entries[i].value)
    IN  {off + 1} \cup (IF len > 0 THEN {off + 2, off + 1 + len} ELSE {})

\* C4: decoding the encoded entries gives them back, and a buffer cut inside
\* an entry is rejected
C4_RoundTrip ==
    (qr_result.kind = "return" /\ AllValuesFit) =>
        LET buf == Base64Decode(qr_result.value)
        IN  /\ DecodeTLV(buf) = [ok |-> TRUE, entries |-> CallEntries]
            /\ \A i \in 1..Len(CallEntries) :
                 \A k \in CutPoints(CallEntries, i) :
                    ~DecodeTLV(SubSeq(buf, 1, k)).ok

\* a phase-2 call with a value of exactly 255 bytes returned a QR
C4_Witness ==
    /\ qr_phase = 2
    /\ qr_result.kind = "return"
    /\ AllValuesFit
    /\ \E i \in 1..Len(CallEntries) : Len(CallEntries[i].value) = MaxValueLen

---------------------------------------------------------------------------
(* C5: when a required source field is absent from the document the call   *)
(* fails with an error and returns no QR string.                           *)
C5_MissingFieldFails ==
    (qr_phase # 0 /\ MissingFields # {}) => qr_result.kind = "throw"

---------------------------------------------------------------------------
(* C6: a request built with a certificate and a secret carries             *)
(* Authorization = "Basic " + base64(base64(stripped certificate) + ":" +  *)
(* secret), the same whether the certificate was given bare or in PEM; a   *)
(* request built without them carries no Authorization header.             *)
CredentialsPresent ==
    credentials.form \in {"stripped", "pem"} /\ Truthy(credentials.secret)

ExpectedAuthorization ==
    BasicText \o
        Base64Encode(Base64Encode(credentials.body) \o Colon \o credentials.secret)

\* C6: every request sent carries exactly the Basic credential of the
\* stripped certificate and the secret, or no Authorization header at all
C6_AuthorizationHeader ==
    \A i \in 1..Len(requests) :
        IF CredentialsPresent
        THEN /\ "Authorization" \in DOMAIN requests[i].headers
             /\ requests[i].headers["Authorization"] = ExpectedAuthorization
        ELSE "Authorization" \notin DOMAIN requests[i].headers

\* a production request was sent with a PEM certificate and a secret
C6_Witness ==
    /\ requests # <<>>
    /\ invoked.op = "production.reportInvoice"
    /\ credentials.form = "pem"
    /\ Truthy(credentials.secret)

---------------------------------------------------------------------------
(* C7: a response with status 200 or 202 gives the caller a result; any    *)
(* other status, or no response, gives the caller an error, which carries  *)
(* the response body when one was received.                                *)
Settled == pending = NoCall /\ received # NothingReceived

\* the error holds the body: as the data of its response property, or as
\* the JSON text in its message
CarriesBody(error, data) ==
    \/ error.response # <<>> /\ error.response[1].data = data
    \/ error.message.body = <<JsonText(data)>>

\* C7: 200 and 202 give a result; everything else gives an error that carries
\* the body received
C7_StatusClassification ==
    Settled =>
        IF received.kind = "response" /\ received.status \in {200, 202}
        THEN outcome.kind = "return"
        ELSE /\ outcome.kind = "throw"
             /\ received.kind = "response" =>
                    CarriesBody(outcome.error, received.data)

---------------------------------------------------------------------------
(* C8: after an HTTP 500 with a validation error body the error given to   *)
(* the caller holds the status and the original list of validation         *)
(* messages as structured data.                                            *)
C8_ValidationErrorsStructured ==
    (/\ Settled
     /\ received.kind = "response"
     /\ received.status = 500
     /\ "validationResults" \in DOMAIN received.data) =>
        /\ outcome.kind = "throw"
        /\ outcome.error.response # <<>>
        /\ outcome.error.response[1].status = 500
        /\ "validationResults" \in DOMAIN outcome.error.response[1].data
        /\ outcome.error.response[1].data.validationResults.errorMessages
                = received.data.validationResults.errorMessages

---------------------------------------------------------------------------
(* C9: issuing a production certificate with an empty request id, or when  *)
(* no compliance issuance has produced one, fails with a sequence error    *)
(* and sends nothing; a production issuance request that is sent carries   *)
(* the request id the unit's compliance issuance produced.                 *)
RejectedUnsent(op) ==
    /\ outcome = ApiThrow(SequenceError(op))
    /\ requests = <<>>
    /\ pending = NoCall

\* C9: no production issuance request without the request id of the unit's
\* compliance issuance
C9_ProductionIssuanceNeedsRequestId ==
    /\ (/\ invoked.op = "egs.issueProductionCertificate"
        /\ \/ invoked.compliance_request_id = ""
           \/ compliance_certificate.request_id = "")
            => RejectedUnsent("egs.issueProductionCertificate")
    /\ pending.op = "production.issueCertificate" =>
            /\ requests[1].data.compliance_request_id # ""
            /\ requests[1].data.compliance_request_id
                    = compliance_certificate.request_id

\* a unit that holds a compliance certificate is asked to issue a production
\* certificate with an empty request id
C9_Witness ==
    /\ invoked.op = "egs.issueProductionCertificate"
    /\ invoked.compliance_request_id = ""
    /\ unit_state = "ComplianceCertIssued"
    /\ RejectedUnsent("egs.issueProductionCertificate")

---------------------------------------------------------------------------
(* C10: a report or clearance request is in flight only when the unit has  *)
(* been issued a production certificate; invoked before that, the          *)
(* operation fails with a sequence error and sends nothing.                *)
C10_SubmissionNeedsProductionCertificate ==
    /\ pending.op \in {"production.reportInvoice", "production.clearanceInvoice"} =>
            /\ unit_state = "ProductionCertIssued"
            /\ production_certificate # NoCertificate
    /\ (/\ invoked.op \in {"egs.reportInvoice", "egs.clearanceInvoice"}
        /\ production_certificate = NoCertificate)
            => RejectedUnsent(invoked.op)

\* a unit with only a compliance certificate and a signed invoice is asked to
\* report it
C10_Witness ==
    /\ invoked.op = "egs.reportInvoice"
    /\ unit_state = "ComplianceCertIssued"
    /\ signed # NoInvoice
    /\ RejectedUnsent("egs.reportInvoice")

\* and a unit with a production certificate has a report request in flight
C10_WitnessSent ==
    /\ pending.op = "production.reportInvoice"
    /\ unit_state = "ProductionCertIssued"

---------------------------------------------------------------------------
(* The hash chain of the invoices one unit signs *)

\* every signed invoice points at the one signed before it, the first at "NA=="
ChainLinked ==
    \A i \in 1..Len(chain) :
        chain[i].previous_invoice_hash =
            (IF i = 1 THEN "NA==" ELSE chain[i - 1].invoice_hash)

\* a signInvoice step of a unit that holds a certificate
SignStep ==
    /\ pending = NoCall
    /\ unit_state \in {"ComplianceCertIssued", "ProductionCertIssued"}
    /\ invoked'.op = "egs.signInvoice"

\* the hash an invoice presented now has to name as its previous_invoice_hash
ExpectedPreviousHash ==
    IF Len(chain) = 0 THEN "NA==" ELSE chain[Len(chain)].invoice_hash

---------------------------------------------------------------------------
(* C12: no invoice, identified by its hash, is both reported and cleared:  *)
(* once a report or a clearance has been sent for an invoice, the other    *)
(* operation is never sent for the same invoice.                           *)
C12_ReportedOrClearedNotBoth ==
    \A s, t \in submitted :
        s.invoiceHash = t.invoiceHash => s.op = t.op

---------------------------------------------------------------------------
\* the client operation that built the request of the current invocation
RequestOp ==
    IF pending # NoCall THEN pending.op
    ELSE IF invoked.op = "egs.issueComplianceCertificate"
    THEN "compliance.issueCertificate"
    ELSE IF invoked.op = "egs.checkInvoiceCompliance"
    THEN "compliance.checkInvoiceCompliance"
    ELSE IF invoked.op = "egs.issueProductionCertificate"
    THEN "production.issueCertificate"
    ELSE IF invoked.op = "egs.reportInvoice" THEN "production.reportInvoice"
    ELSE IF invoked.op = "egs.clearanceInvoice" THEN "production.clearanceInvoice"
    ELSE invoked.op

AuthenticatedOps ==
    {"compliance.checkInvoiceCompliance", "production.issueCertificate",
     "production.reportInvoice", "production.clearanceInvoice"}

IsPrefix(p, v) == Len(p) <= Len(v) /\ SubSeq(v, 1, Len(p)) = p

\* the request carries an Authorization header with a Basic credential
CarriesBasicCredential(request) ==
    /\ "Authorization" \in DOMAIN request.headers
    /\ IsPrefix(<<66, 97, 115, 105, 99, 32>>, request.headers["Authorization"])

(* C13: the compliance certificate issuance is the only request ever sent  *)
(* without an Authorization header: every checkInvoiceCompliance,          *)
(* production issueCertificate, reportInvoice and clearanceInvoice request *)
(* that is sent carries the Basic credential.                              *)
C13_OnlyComplianceIssuanceUnauthenticated ==
    \A i \in 1..Len(requests) :
        RequestOp \in AuthenticatedOps => CarriesBasicCredential(requests[i])

(* C13, as the client behaves: a request carries the Basic credential      *)
(* exactly when a certificate and a secret, both non-empty, were handed to *)
(* compliance() or production(); when either is missing the request of any *)
(* of the five operations is still sent, without an Authorization header.  *)
C13_AuthorizationFollowsCredentials ==
    /\ \A i \in 1..Len(requests) :
            IF CredentialsPresent
            THEN CarriesBasicCredential(requests[i])
            ELSE "Authorization" \notin DOMAIN requests[i].headers
    /\ (pending # NoCall /\ pending.via = "client") => Len(requests) = 1

\* a report request is in flight that was built with a certificate but no secret
C13_Witness ==
    /\ pending.op = "production.reportInvoice"
    /\ credentials.form \in {"stripped", "pem"}
    /\ ~Truthy(credentials.secret)
    /\ Len(requests) = 1
    /\ "Authorization" \notin DOMAIN requests[1].headers

---------------------------------------------------------------------------
(* The request each operation sends *)

ExpectedBaseUrl ==
    [production |-> "https://gw-fatoora.zatca.gov.sa/e-invoicing/core",
     simulation |-> "https://gw-fatoora.zatca.gov.sa/e-invoicing/simulation",
     development |-> "https://gw-fatoora.zatca.gov.sa/e-invoicing/developer-portal"]

ExpectedPath ==
    [op \in {"compliance.issueCertificate", "compliance.checkInvoiceCompliance",
             "production.issueCertificate", "production.reportInvoice",
             "production.clearanceInvoice"} |->
        CASE op = "compliance.issueCertificate" -> "/compliance"
          [] op = "compliance.checkInvoiceCompliance" -> "/compliance/invoices"
          [] op = "production.issueCertificate" -> "/production/csids"
          [] op = "production.reportInvoice" -> "/invoices/reporting/single"
          [] op = "production.clearanceInvoice" -> "/invoices/clearance/single"]

HasHeader(request, name, value) ==
    name \in DOMAIN request.headers /\ request.headers[name] = value

\* the body {invoiceHash, uuid, invoice: base64(signed_xml)} of an invoice
CarriesInvoice(request, inv) ==
    /\ DOMAIN request.data = {"invoiceHash", "uuid", "invoice"}
    /\ request.data.invoiceHash = inv.invoice_hash
    /\ request.data.uuid = SampleUuid
    /\ Base64Decode(request.data.invoice) = inv.signed_invoice_string

(* C14: each operation sends its request to the path and with the headers  *)
(* fixed for it, on the base URL of the environment chosen at              *)
(* construction: compliance issuance to /compliance with Accept-Version    *)
(* and OTP, compliance check to /compliance/invoices, production issuance  *)
(* to /production/csids, report to /invoices/reporting/single with         *)
(* Clearance-Status 0, clearance to /invoices/clearance/single with        *)
(* Clearance-Status 1; the three invoice operations send the body          *)
(* {invoiceHash, uuid, invoice: base64(signed_xml)}.                       *)
C14_RequestPerOperation ==
    (pending # NoCall /\ pending.via = "client") =>
        /\ Len(requests) = 1
        /\ invoked.op = pending.op
        /\ LET request == requests[1]
               op == pending.op
           IN  /\ request.url = ExpectedBaseUrl[env] \o ExpectedPath[op]
               /\ HasHeader(request, "Accept-Version", "V2")
               /\ op = "compliance.issueCertificate" =>
                        HasHeader(request, "OTP", invoked.otp)
               /\ op = "production.reportInvoice" =>
                        HasHeader(request, "Clearance-Status", "0")
               /\ op = "production.clearanceInvoice" =>
                        HasHeader(request, "Clearance-Status", "1")
               /\ op \in {"compliance.checkInvoiceCompliance",
                           "production.reportInvoice",
                           "production.clearanceInvoice"} =>
                        CarriesInvoice(request, invoked.invoice)

\* a clearance request is in flight from a client built for the simulation
\* environment
C14_Witness ==
    /\ pending = [op |-> "production.clearanceInvoice", via |-> "client"]
    /\ env = "simulation"
    /\ Len(requests) = 1
    /\ requests[1].data.invoiceHash = "hash-2"

---------------------------------------------------------------------------
\* the response is one the operation turns into a result
Accepted(response) ==
    response.kind = "response" /\ response.status \in {200, 202}

(* C15: no operation is retried: an invocation sends at most one HTTP      *)
(* request, and when that request fails (no response, or a status other    *)
(* than 200 and 202) the invocation ends there, raising the failure to     *)
(* its caller without sending a second request.                            *)
C15_NoRetry ==
    /\ [](Len(requests) <= 1)
    /\ [][(pending # NoCall /\ received' # NothingReceived /\ ~Accepted(received'))
            => /\ pending' = NoCall
               /\ requests' = requests
               /\ submitted' = submitted
               /\ outcome'.kind = "throw"]_vars

\* a report got no response and its caller got the error, after one request
C15_Witness ==
    /\ invoked.op = "production.reportInvoice"
    /\ pending = NoCall
    /\ received = NoAnswer
    /\ Len(requests) = 1
    /\ outcome.kind = "throw"

---------------------------------------------------------------------------
(* C16: every remote operation waits a bounded time only: when the remote  *)
(* service never responds, the operation eventually completes by raising a *)
(* transport failure to its caller.                                        *)
C16_BoundedWait ==
    (pending # NoCall) ~>
        (pending = NoCall /\ received = NoAnswer /\ outcome.kind = "throw")

=============================================================================
